---- MODULE Spec2Model ----
(***************************************************************************)
(* Model of timetrack.py: a work-hours tracker over an SQLite table        *)
(* times(type, ts) with PRIMARY KEY (type, ts).                            *)
(*                                                                         *)
(* Time is counted in whole hours since the midnight that starts day 0.    *)
(* Day 0 is a Monday, so date d has weekday d % 7 (Monday = 0), as         *)
(* date.weekday() has it.  A timedelta is a number of hours.               *)
(***************************************************************************)
EXTENDS Integers, Sequences, FiniteSets, TLC

VARIABLES log, now, out, procs, wk, db

vars == <<log, now, out, procs, wk, db>>

-----------------------------------------------------------------------------
(* Program constants                                                       *)

ACT_ARRIVE == "arrive"
ACT_BREAK == "break"
ACT_RESUME == "resume"
ACT_LEAVE == "leave"

MSG_ERR_NOT_WORKING == 1
MSG_ERR_HAVE_NOT_LEFT == 2
MSG_ERR_NOT_BREAKING == 4
MSG_SUCCESS_ARRIVAL == 8
MSG_SUCCESS_BREAK == 16
MSG_SUCCESS_RESUME == 32
MSG_SUCCESS_LEAVE == 64

WEEK_HOURS == 40

\* hours in timedelta(days=1)
DayLen == 24

\* days in timedelta(weeks=1)
WeekLen == 7

\* Python's None, for a type and for a timestamp
None == "None"
NoTs == -1

-----------------------------------------------------------------------------
(* Bounds of the model                                                     *)

\* commands are issued on a grid of instants Step hours apart
Step == 4
\* number of grid instants after instant 0 in the sequential specification
MaxSteps == 8

Grid == {k * Step : k \in 0..MaxSteps}

-----------------------------------------------------------------------------
(* Dates                                                                   *)

\* datetime.combine(d, time()): the midnight that starts date d
Midnight(d) == d * DayLen

\* date.today() when the clock reads t
DateOf(t) == t \div DayLen

\* date.weekday()
weekday(d) == d % WeekLen

-----------------------------------------------------------------------------
(* The times table                                                         *)

Event(type, ts) == [type |-> type, ts |-> ts]

Indices(l) == 1..Len(l)

MaxTs(l) == CHOOSE m \in {l[i].ts : i \in Indices(l)} :
                \A i \in Indices(l) : l[i].ts <= m

\* SELECT type FROM times ORDER BY ts DESC LIMIT 1: the rows that may come
\* first; SQL leaves the order of rows with equal ts open
getLastType(l) ==
    IF l = <<>> THEN {None}
    ELSE {l[i].type : i \in {j \in Indices(l) : l[j].ts = MaxTs(l)}}

\* SELECT ts FROM times ORDER BY ts DESC LIMIT 1
getLastTime(l) == IF l = <<>> THEN NoTs ELSE MaxTs(l)

\* a variant of the table without the PRIMARY KEY
DuplicateKeyNever(l, type, ts) == FALSE

\* the PRIMARY KEY (type, ts) refuses a second row with the same key
DuplicateKey(l, type, ts) ==
    \E i \in Indices(l) : l[i].type = type /\ l[i].ts = ts

\* INSERT INTO times (type, ts) VALUES (?, ?); commit
addEntry(l, type, ts) ==
    IF DuplicateKey(l, type, ts) THEN l ELSE Append(l, Event(type, ts))

-----------------------------------------------------------------------------
(* The result of the last command that ran to its end                      *)

Idle == [cmd |-> "none"]

Success(cmd, msg, ts) == [cmd |-> cmd, st |-> "ok", msg |-> msg, ts |-> ts]

\* error(randomMessage(type), None): ProgramAbortError, exit status 1
Abort(cmd, msg) == [cmd |-> cmd, st |-> "error", msg |-> msg]

\* an sqlite3.IntegrityError that nothing catches
Crash(cmd) == [cmd |-> cmd, st |-> "crash", msg |-> "IntegrityError"]

\* an sqlite3.OperationalError that nothing catches
TableExists ==
    [cmd |-> "dbSetup", st |-> "crash", msg |-> "table times already exists"]

Locked == [cmd |-> "execute", st |-> "crash", msg |-> "database is locked"]

\* the database file before the first invocation and once it is set up
DbNew == [version |-> 0, table |-> FALSE, lock |-> None]

DbReady == [version |-> 1, table |-> TRUE, lock |-> None]

IdleWeek == [pc |-> "idle"]

NoProcs == <<>>

-----------------------------------------------------------------------------
(* State machine: the validation of each command                           *)

\* a variant of the test of startTracking that lets every call through
startTrackingRejectsNever(lastType) == FALSE

startTrackingRejects(lastType) == lastType # None /\ lastType # ACT_LEAVE

suspendTrackingRejects(lastType) == lastType \notin {ACT_ARRIVE, ACT_RESUME}

resumeTrackingRejects(lastType) == lastType # ACT_BREAK

\* a variant that lets the day end during a break
endTrackingRejectsLoose(lastType) ==
    lastType \notin {ACT_ARRIVE, ACT_RESUME, ACT_BREAK}

endTrackingRejects(lastType) == lastType \notin {ACT_ARRIVE, ACT_RESUME}

Commands == {"startTracking", "suspendTracking", "resumeTracking",
             "endTracking"}

Rejects(cmd, lastType) ==
    CASE cmd = "startTracking" -> startTrackingRejects(lastType)
      [] cmd = "suspendTracking" -> suspendTrackingRejects(lastType)
      [] cmd = "resumeTracking" -> resumeTrackingRejects(lastType)
      [] cmd = "endTracking" -> endTrackingRejects(lastType)

\* a variant in which the end of a day is refused with the message of
\* the end of a break
ErrorOfMixedUp(cmd) ==
    CASE cmd = "startTracking" -> MSG_ERR_HAVE_NOT_LEFT
      [] cmd = "suspendTracking" -> MSG_ERR_NOT_WORKING
      [] cmd = "resumeTracking" -> MSG_ERR_NOT_BREAKING
      [] cmd = "endTracking" -> MSG_ERR_NOT_BREAKING

ErrorOf(cmd) ==
    CASE cmd = "startTracking" -> MSG_ERR_HAVE_NOT_LEFT
      [] cmd = "suspendTracking" -> MSG_ERR_NOT_WORKING
      [] cmd = "resumeTracking" -> MSG_ERR_NOT_BREAKING
      [] cmd = "endTracking" -> MSG_ERR_NOT_WORKING

\* a variant in which the end of a break is recorded as a break
TypeOfMixedUp(cmd) ==
    CASE cmd = "startTracking" -> ACT_ARRIVE
      [] cmd = "suspendTracking" -> ACT_BREAK
      [] cmd = "resumeTracking" -> ACT_BREAK
      [] cmd = "endTracking" -> ACT_LEAVE

TypeOf(cmd) ==
    CASE cmd = "startTracking" -> ACT_ARRIVE
      [] cmd = "suspendTracking" -> ACT_BREAK
      [] cmd = "resumeTracking" -> ACT_RESUME
      [] cmd = "endTracking" -> ACT_LEAVE

SuccessOf(cmd) ==
    CASE cmd = "startTracking" -> MSG_SUCCESS_ARRIVAL
      [] cmd = "suspendTracking" -> MSG_SUCCESS_BREAK
      [] cmd = "resumeTracking" -> MSG_SUCCESS_RESUME
      [] cmd = "endTracking" -> MSG_SUCCESS_LEAVE

\* a variant whose error() reports the message and returns
AfterCommandNoRaise(cmd, lastType, t) ==
    IF Rejects(cmd, lastType)
    THEN [log |-> addEntry(log, TypeOf(cmd), t),
          out |-> Abort(cmd, ErrorOf(cmd))]
    ELSE [log |-> addEntry(log, TypeOf(cmd), t),
          out |-> Success(cmd, SuccessOf(cmd), t)]

\* the log and the result after the whole handler cmd has run, when its
\* query for the last type answered lastType and datetime.now() answered t
AfterCommand(cmd, lastType, t) ==
    IF Rejects(cmd, lastType)
    THEN [log |-> log, out |-> Abort(cmd, ErrorOf(cmd))]
    ELSE IF DuplicateKey(log, TypeOf(cmd), t)
         THEN [log |-> log, out |-> Crash(cmd)]
         ELSE [log |-> addEntry(log, TypeOf(cmd), t),
               out |-> Success(cmd, SuccessOf(cmd), t)]

\* one whole invocation of a state-machine command while the clock reads t
RunCommand(cmd, t) ==
    /\ wk.pc # "loop"
    /\ \E lastType \in getLastType(log) :
          LET r == AfterCommand(cmd, lastType, t)
          IN  /\ log' = r.log
              /\ out' = r.out
    /\ now' = t
    /\ wk' = IdleWeek
    /\ UNCHANGED <<procs, db>>

startTracking(t) == RunCommand("startTracking", t)

suspendTracking(t) == RunCommand("suspendTracking", t)

resumeTracking(t) == RunCommand("resumeTracking", t)

endTracking(t) == RunCommand("endTracking", t)

-----------------------------------------------------------------------------
(* Day aggregation                                                         *)

ERR_NO_ARRIVAL == "There is no arrival on"
ERR_EXPECTED_ARRIVAL == "Expected arrival while computing presence time"
ERR_EXPECTED_LEAVE == "Expected break/leave while computing presence time"

\* a variant of the first query without its test on the type
ArrivalsOnAnyType(l, d) ==
    {l[i].ts : i \in {j \in Indices(l) :
                        /\ l[j].ts >= Midnight(d)
                        /\ l[j].ts < Midnight(d + 1)}}

\* the first query of getEntries: the arrivals of date d
ArrivalsOn(l, d) ==
    {l[i].ts : i \in {j \in Indices(l) :
                        /\ l[j].type = ACT_ARRIVE
                        /\ l[j].ts >= Midnight(d)
                        /\ l[j].ts < Midnight(d + 1)}}

\* ... ORDER BY ts ASC LIMIT 1
FirstArrival(l, d) ==
    CHOOSE a \in ArrivalsOn(l, d) : \A b \in ArrivalsOn(l, d) : a <= b

\* the rows the second query of getEntries selects:
\* WHERE ts >= startTime AND ts <= endTime
EntriesFrom(l, startTime, d) ==
    {i \in Indices(l) : /\ l[i].ts >= startTime
                        /\ l[i].ts <= Midnight(d + 1)}

\* the rows it selects when both queries see the same table
EntryIndices(l, d) == EntriesFrom(l, FirstArrival(l, d), d)

\* ORDER BY ts ASC: every order of the rows I of l that is ascending in ts
RECURSIVE Ascending(_, _)
Ascending(l, I) ==
    IF I = {} THEN {<<>>}
    ELSE LET firsts == {i \in I : \A j \in I : l[i].ts <= l[j].ts}
         IN  UNION {{<<l[i]>> \o rest : rest \in Ascending(l, I \ {i})} :
                    i \in firsts}

\* getEntries(con, d), when there is an arrival on d: the cursors it may return
getEntries(l, d) == Ascending(l, EntryIndices(l, d))

\* a variant of the loop that takes whatever row follows an opening row
\* as the row that closes the interval
RECURSIVE ReplayLenient(_, _, _, _)
ReplayLenient(rows, i, summaryTime, arrival) ==
    IF i > Len(rows)
    THEN [st |-> "ok", summaryTime |-> summaryTime, arrival |-> arrival]
    ELSE IF arrival = NoTs
         THEN IF rows[i].type \notin {ACT_ARRIVE, ACT_RESUME}
              THEN ReplayLenient(rows, i + 1, summaryTime, arrival)
              ELSE ReplayLenient(rows, i + 1, summaryTime, rows[i].ts)
         ELSE ReplayLenient(rows, i + 1, summaryTime + (rows[i].ts - arrival),
                            NoTs)

\* the loop of getWorkTimeForDay from row i on
RECURSIVE Replay(_, _, _, _)
Replay(rows, i, summaryTime, arrival) ==
    IF i > Len(rows)
    THEN [st |-> "ok", summaryTime |-> summaryTime, arrival |-> arrival]
    ELSE IF arrival = NoTs
         THEN IF rows[i].type \notin {ACT_ARRIVE, ACT_RESUME}
              THEN [st |-> "error", msg |-> ERR_EXPECTED_ARRIVAL]
              ELSE Replay(rows, i + 1, summaryTime, rows[i].ts)
         ELSE IF rows[i].type \notin {ACT_BREAK, ACT_LEAVE}
              THEN [st |-> "error", msg |-> ERR_EXPECTED_LEAVE]
              ELSE Replay(rows, i + 1, summaryTime + (rows[i].ts - arrival),
                          NoTs)

\* a variant that leaves the interval still open out of the total
WorkTimeClosedOnly(rows, t) ==
    LET r == Replay(rows, 1, 0, NoTs)
    IN  IF r.st = "error" THEN r
        ELSE [st |-> "ok", here |-> r.arrival # NoTs, total |-> r.summaryTime]

\* a variant that counts the time from the first row to the last one
WorkTimeSpan(rows, t) ==
    LET r == Replay(rows, 1, 0, NoTs)
    IN  IF r.st = "error" THEN r
        ELSE [st |-> "ok",
              here |-> r.arrival # NoTs,
              total |-> IF r.arrival # NoTs
                        THEN t - rows[1].ts
                        ELSE rows[Len(rows)].ts - rows[1].ts]

\* getWorkTimeForDay on the cursor rows while the clock reads t:
\* (arrival is not None, summaryTime), or the error raised
WorkTime(rows, t) ==
    LET r == Replay(rows, 1, 0, NoTs)
    IN  IF r.st = "error" THEN r
        ELSE [st |-> "ok",
              here |-> r.arrival # NoTs,
              total |-> IF r.arrival # NoTs
                        THEN r.summaryTime + (t - r.arrival)
                        ELSE r.summaryTime]

\* the results getWorkTimeForDay(con, d) may return while the clock reads t
getWorkTimeForDay(l, d, t) ==
    IF ArrivalsOn(l, d) = {}
    THEN {[st |-> "error", msg |-> ERR_NO_ARRIVAL]}
    ELSE {WorkTime(rows, t) @@ [first |-> rows[1], rows |-> rows] :
             rows \in getEntries(l, d)}

\* the dates a query is made for
Dates == 0..DateOf(now)

\* a call of getWorkTimeForDay(con, d) while the clock reads t
DayWorkTime(d, t) ==
    /\ wk.pc # "loop"
    /\ \E r \in getWorkTimeForDay(log, d, t) :
          out' = r @@ [cmd |-> "getWorkTimeForDay", d |-> d]
    /\ now' = t
    /\ wk' = IdleWeek
    /\ UNCHANGED <<log, procs, db>>

\* the offsets a day report is asked with
DayOffsets == {-1, 0}

\* a variant of the day report that records the moment it was asked for
dayStatisticsRecording(offset, t) ==
    /\ wk.pc # "loop"
    /\ LET today == DateOf(t)
           targetDay == today + offset
       IN  IF ArrivalsOn(log, targetDay) = {}
           THEN out' = [cmd |-> "dayStatistics", d |-> targetDay,
                        st |-> "error", msg |-> ERR_NO_ARRIVAL]
           ELSE \E rows \in getEntries(log, targetDay),
                   r \in getWorkTimeForDay(log, today, t) :
                   out' = [cmd |-> "dayStatistics", d |-> targetDay,
                           rows |-> rows] @@ r
    /\ now' = t
    /\ wk' = IdleWeek
    /\ log' = Append(log, Event(ACT_LEAVE, t))
    /\ UNCHANGED <<procs, db>>

\* dayStatistics(con, offset) while the clock reads t: the rows printed are
\* those of today + offset, the figures those of getWorkTimeForDay(con)
dayStatistics(offset, t) ==
    /\ wk.pc # "loop"
    /\ LET today == DateOf(t)
           targetDay == today + offset
       IN  IF ArrivalsOn(log, targetDay) = {}
           THEN out' = [cmd |-> "dayStatistics", d |-> targetDay,
                        st |-> "error", msg |-> ERR_NO_ARRIVAL]
           ELSE \E rows \in getEntries(log, targetDay),
                   r \in getWorkTimeForDay(log, today, t) :
                   out' = [cmd |-> "dayStatistics", d |-> targetDay,
                           rows |-> rows] @@ r
    /\ now' = t
    /\ wk' = IdleWeek
    /\ UNCHANGED <<log, procs, db>>

-----------------------------------------------------------------------------
(* Week aggregation                                                        *)

\* timedelta(hours=float(WEEK_HOURS) / 5.0)
dailyHours == WEEK_HOURS \div 5

Min(a, b) == IF a <= b THEN a ELSE b

\* a variant that ends the week seven days after its start, whatever today is
weekStartUncapped(offset, t) ==
    /\ wk.pc # "loop"
    /\ LET today == DateOf(t)
           startOfWeek == today - weekday(today) + WeekLen * offset
           endOfWeek == startOfWeek + WeekLen
       IN  wk' = [pc |-> "loop",
                  offset |-> offset,
                  today |-> today,
                  startOfWeek |-> startOfWeek,
                  endOfWeek |-> endOfWeek,
                  current |-> startOfWeek,
                  weekTotal |-> 0,
                  extraHours |-> 0,
                  daysSoFar |-> 0,
                  headerPrinted |-> FALSE,
                  currentlyHere |-> FALSE,
                  rows |-> <<>>,
                  startTime |-> NoTs,
                  cursor |-> <<>>,
                  caught |-> <<>>]
    /\ now' = t
    /\ out' = [cmd |-> "weekStatistics", st |-> "running"]
    /\ UNCHANGED <<log, procs, db>>

\* weekStatistics(con, offset) up to its loop, while the clock reads t
weekStart(offset, t) ==
    /\ wk.pc # "loop"
    /\ LET today == DateOf(t)
           startOfWeek == today - weekday(today) + WeekLen * offset
           endOfWeek == Min(today + 1, startOfWeek + WeekLen)
       IN  wk' = [pc |-> "loop",
                  offset |-> offset,
                  today |-> today,
                  startOfWeek |-> startOfWeek,
                  endOfWeek |-> endOfWeek,
                  current |-> startOfWeek,
                  weekTotal |-> 0,
                  extraHours |-> 0,
                  daysSoFar |-> 0,
                  headerPrinted |-> FALSE,
                  currentlyHere |-> FALSE,
                  rows |-> <<>>,
                  startTime |-> NoTs,
                  cursor |-> <<>>,
                  caught |-> <<>>]
    /\ now' = t
    /\ out' = [cmd |-> "weekStatistics", st |-> "running"]
    /\ UNCHANGED <<log, procs, db>>

\* the body of the try for a day whose aggregation returned r
DayCounted(w, r) ==
    [w EXCEPT !.currentlyHere = r.here,
              !.daysSoFar = @ + 1,
              !.weekTotal = @ + r.total,
              !.extraHours = @ + (r.total - dailyHours),
              !.headerPrinted = TRUE,
              !.rows = Append(@, [date |-> w.current,
                                  hours |-> r.total,
                                  diff |-> r.total - dailyHours]),
              !.current = @ + 1]

\* a variant of the except branch that counts the absent day as a day
DaySkippedCounted(w) ==
    IF weekday(w.current) < 5
    THEN [w EXCEPT !.headerPrinted = TRUE,
                   !.daysSoFar = @ + 1,
                   !.extraHours = @ - dailyHours,
                   !.rows = Append(@, [date |-> w.current]),
                   !.current = @ + 1]
    ELSE [w EXCEPT !.current = @ + 1]

\* the except ProgramAbortError branch
DaySkipped(w) ==
    IF weekday(w.current) < 5
    THEN [w EXCEPT !.headerPrinted = TRUE,
                   !.rows = Append(@, [date |-> w.current]),
                   !.current = @ + 1]
    ELSE [w EXCEPT !.current = @ + 1]

\* except ProgramAbortError as pae: the error the loop went on after
Caught(w, r) == [w EXCEPT !.caught = Append(@, r.msg)]

\* one pass of the loop of weekStatistics, while the clock reads t
weekIter(t) ==
    /\ wk.pc = "loop"
    /\ wk.current < wk.endOfWeek
    /\ \E r \in getWorkTimeForDay(log, wk.current, t) :
          wk' = IF r.st = "ok" THEN DayCounted(wk, r)
                ELSE Caught(DaySkipped(wk), r)
    /\ now' = t
    /\ UNCHANGED <<log, out, procs, db>>

\* a variant that prints the daily figure whenever the week is incomplete
FooterDailyLate(w) ==
    LET remaining == WEEK_HOURS - w.weekTotal
        showRemaining ==
            w.daysSoFar < 5 \/ (w.daysSoFar = 5 /\ w.currentlyHere)
    IN  [expectation |-> IF w.daysSoFar < 5
                         THEN <<dailyHours * w.daysSoFar>> ELSE <<>>,
         weekTotal |-> w.weekTotal,
         weekExtraHours |-> w.extraHours,
         remaining |-> IF showRemaining THEN <<remaining>> ELSE <<>>,
         remainingPerDay |->
             IF showRemaining /\ w.daysSoFar < 5
             THEN <<[num |-> remaining, den |-> 5 - w.daysSoFar]>>
             ELSE <<>>]

\* the lines weekStatistics prints after the loop; each figure is a
\* sequence, empty when its line is left out
Footer(w) ==
    LET remaining == WEEK_HOURS - w.weekTotal
        showRemaining ==
            w.daysSoFar < 5 \/ (w.daysSoFar = 5 /\ w.currentlyHere)
    IN  [expectation |-> IF w.daysSoFar < 5
                         THEN <<dailyHours * w.daysSoFar>> ELSE <<>>,
         weekTotal |-> w.weekTotal,
         weekExtraHours |-> w.extraHours,
         remaining |-> IF showRemaining THEN <<remaining>> ELSE <<>>,
         remainingPerDay |->
             IF showRemaining /\ w.daysSoFar < 4
             THEN <<[num |-> remaining, den |-> 5 - w.daysSoFar]>>
             ELSE <<>>]

\* weekStatistics after its loop
weekFooter ==
    /\ wk.pc = "loop"
    /\ ~(wk.current < wk.endOfWeek)
    /\ wk' = [wk EXCEPT !.pc = "done"] @@ [footer |-> Footer(wk)]
    /\ out' = [cmd |-> "weekStatistics", st |-> "ok"]
    /\ UNCHANGED <<log, now, procs, db>>

\* the week offsets asked for
Offsets == {-1, 0, 1}

-----------------------------------------------------------------------------
(* Concurrent use: invocations side by side, one step for each statement  *)
(* on the connection and each fetch from a cursor, with the locks of       *)
(* SQLite in between; sqlite3 opens no transaction before the INSERT.      *)

Procs == {"p", "q"}

\* number of grid instants after instant 0 in the concurrent specification
MaxStepsConc == 3

GridConc == {k * Step : k \in 0..MaxStepsConc}

IdleProc == [pc |-> "idle"]

\* a further invocation, which runs the reports
Reader == "r"

Invocations == Procs \cup {Reader}

\* the connections other than that of x
Others(x) == Invocations \ {x}

\* where a connection has executed a SELECT or PRAGMA that found a row and
\* has not fetched it yet: the statement is still open
CursorOpen == {"versionCursor", "typeCursor", "timeCursor", "arrivalCursor",
               "replaying"}

\* x holds a SHARED lock: from the execute of a statement that has a row
\* until the fetch that brings the statement to its end
HoldsShared(x) ==
    \/ procs[x].pc \in CursorOpen
    \/ x = Reader /\ wk.pc \in {"arrivalCursor", "replaying"}

\* x holds the RESERVED lock: after its INSERT, or while its commit or its
\* BEGIN EXCLUSIVE waits for the readers
HoldsReserved(x) == procs[x].pc \in {"inserted", "pending", "exclusiveWait"}

\* x holds the PENDING lock: its commit or its BEGIN EXCLUSIVE waits for
\* the readers, and no new reader gets in
HoldsPending(x) == procs[x].pc \in {"pending", "exclusiveWait"}

\* a connection other than x holds a SHARED lock
ReaderHolds(x) == \E y \in Others(x) : HoldsShared(y)

\* x may take a SHARED lock: no other connection is in the exclusive
\* transaction of dbSetup or holds the PENDING lock
CanRead(x) ==
    /\ db.lock \in {None, x}
    /\ \A y \in Others(x) : ~HoldsPending(y)

\* x may take the RESERVED lock: it may read and no other connection
\* holds the RESERVED lock
CanReserve(x) ==
    /\ CanRead(x)
    /\ \A y \in Others(x) : ~HoldsReserved(y)

\* x may take the EXCLUSIVE lock: no other connection reads
CanCommit(x) == ~ReaderHolds(x)

\* what keeps the next statement of x waiting
Blocked(x) ==
    CASE x = Reader /\ procs[x].pc = "ready"
            /\ wk.pc \in {"arrivalCursor", "replaying", "looped"} -> FALSE
      [] x = Reader /\ procs[x].pc = "ready" /\ wk.pc = "loop"
            /\ ~(wk.current < wk.endOfWeek) -> FALSE
      [] procs[x].pc \in {"idle", "ready", "typed", "queried"} -> ~CanRead(x)
      [] procs[x].pc \in {"setup", "timed"} -> ~CanReserve(x)
      [] procs[x].pc \in {"exclusiveWait", "pending"} -> ~CanCommit(x)
      [] OTHER -> FALSE

\* dbSetup: con.execute("PRAGMA user_version")
readVersion(x) ==
    /\ procs[x].pc = "idle"
    /\ CanRead(x)
    /\ procs' = [procs EXCEPT ![x] = [pc |-> "versionCursor",
                                      version |-> db.version]]
    /\ wk' = IF x = Reader THEN IdleWeek ELSE wk
    /\ UNCHANGED <<log, now, out, db>>

\* dbSetup: .fetchone()['user_version'] and the test on it
fetchVersion(x) ==
    /\ procs[x].pc = "versionCursor"
    /\ procs' = [procs EXCEPT ![x] =
                    [pc |-> IF procs[x].version = 0 THEN "setup"
                            ELSE "ready"]]
    /\ UNCHANGED <<log, now, out, wk, db>>

\* dbSetup: BEGIN EXCLUSIVE has the RESERVED lock, finds a reader and
\* waits for it with the PENDING lock
beginExclusiveWait(x) ==
    /\ procs[x].pc = "setup"
    /\ CanReserve(x)
    /\ ~CanCommit(x)
    /\ procs' = [procs EXCEPT ![x] = [pc |-> "exclusiveWait"]]
    /\ UNCHANGED <<log, now, out, wk, db>>

\* dbSetup: BEGIN EXCLUSIVE
beginExclusive(x) ==
    /\ \/ procs[x].pc = "setup" /\ CanReserve(x)
       \/ procs[x].pc = "exclusiveWait"
    /\ CanCommit(x)
    /\ db' = [db EXCEPT !.lock = x]
    /\ procs' = [procs EXCEPT ![x] = [pc |-> "exclusive"]]
    /\ UNCHANGED <<log, now, out, wk>>

\* dbSetup: CREATE TABLE times, PRAGMA user_version = 1, commit
createTable(x) ==
    /\ procs[x].pc = "exclusive"
    /\ IF db.table
       THEN /\ out' = TableExists
            /\ db' = [db EXCEPT !.lock = None]
            /\ procs' = [procs EXCEPT ![x] = IdleProc]
       ELSE /\ db' = DbReady
            /\ procs' = [procs EXCEPT ![x] = [pc |-> "ready"]]
            /\ UNCHANGED out
    /\ UNCHANGED <<log, now, wk>>

\* a statement that waited for the lock of another connection longer than
\* the timeout of sqlite3.connect; the invocation ends and its own locks
\* go with it
lockTimeout(x) ==
    /\ Blocked(x)
    /\ out' = Locked
    /\ procs' = [procs EXCEPT ![x] = IdleProc]
    /\ wk' = IF x = Reader THEN IdleWeek ELSE wk
    /\ UNCHANGED <<log, now, db>>

\* getLastType(con): con.execute; on an empty table the statement is at
\* its end at once and row is None
queryLastType(p) ==
    /\ procs[p].pc = "ready"
    /\ CanRead(p)
    /\ \E lastType \in getLastType(log) :
          procs' = [procs EXCEPT ![p] =
                      [pc |-> IF log = <<>> THEN "typed" ELSE "typeCursor",
                       lastType |-> lastType]]
    /\ UNCHANGED <<log, now, out, wk, db>>

\* getLastType(con): cur.fetchone()
fetchLastType(p) ==
    /\ procs[p].pc = "typeCursor"
    /\ procs' = [procs EXCEPT ![p].pc = "typed"]
    /\ UNCHANGED <<log, now, out, wk, db>>

\* suspendTracking, resumeTracking: getLastTime(con), con.execute; its
\* value goes into the text of the message only
queryLastTime(p) ==
    /\ procs[p].pc = "typed"
    /\ CanRead(p)
    /\ procs' = [procs EXCEPT ![p].pc =
                    IF getLastTime(log) = NoTs THEN "lastTimed"
                    ELSE "timeCursor"]
    /\ UNCHANGED <<log, now, out, wk, db>>

\* getLastTime(con): cur.fetchone()
fetchLastTime(p) ==
    /\ procs[p].pc = "timeCursor"
    /\ procs' = [procs EXCEPT ![p].pc = "lastTimed"]
    /\ UNCHANGED <<log, now, out, wk, db>>

\* the commands that ask for the last time before their test
AskLastTime == {"suspendTracking", "resumeTracking"}

\* the test of a handler on the last type it has read
validate(p, cmd) ==
    /\ procs[p].pc = IF cmd \in AskLastTime THEN "lastTimed" ELSE "typed"
    /\ IF Rejects(cmd, procs[p].lastType)
       THEN /\ out' = Abort(cmd, ErrorOf(cmd))
            /\ procs' = [procs EXCEPT ![p] = IdleProc]
       ELSE /\ procs' = [procs EXCEPT ![p] = [pc |-> "validated",
                                              cmd |-> cmd]]
            /\ UNCHANGED out
    /\ UNCHANGED <<log, now, wk, db>>

\* datetime.now()
readClock(p, t) ==
    /\ procs[p].pc = "validated"
    /\ procs' = [procs EXCEPT ![p] = [pc |-> "timed",
                                      cmd |-> procs[p].cmd,
                                      ts |-> t]]
    /\ now' = t
    /\ UNCHANGED <<log, out, wk, db>>

\* addEntry(con, type, ts): the INSERT, which opens a transaction; the
\* row is not in the table of the other connections before the commit
insert(p) ==
    /\ procs[p].pc = "timed"
    /\ CanReserve(p)
    /\ IF DuplicateKey(log, TypeOf(procs[p].cmd), procs[p].ts)
       THEN /\ out' = Crash(procs[p].cmd)
            /\ procs' = [procs EXCEPT ![p] = IdleProc]
       ELSE /\ procs' = [procs EXCEPT ![p].pc = "inserted"]
            /\ UNCHANGED out
    /\ UNCHANGED <<log, now, wk, db>>

\* addEntry: con.commit() finds a reader and waits for it
commitWait(p) ==
    /\ procs[p].pc = "inserted"
    /\ ~CanCommit(p)
    /\ procs' = [procs EXCEPT ![p].pc = "pending"]
    /\ UNCHANGED <<log, now, out, wk, db>>

\* addEntry: con.commit(), and the message of success
commit(p) ==
    /\ procs[p].pc \in {"inserted", "pending"}
    /\ CanCommit(p)
    /\ log' = addEntry(log, TypeOf(procs[p].cmd), procs[p].ts)
    /\ out' = Success(procs[p].cmd, SuccessOf(procs[p].cmd), procs[p].ts)
    /\ procs' = [procs EXCEPT ![p] = IdleProc]
    /\ UNCHANGED <<now, wk, db>>

\* where the week report is inside a pass of its loop
InPass == {"loop", "arrivalCursor", "queried", "replaying", "looped"}

\* getWorkTimeForDay(con, d), first query of getEntries: con.execute
queryArrival(d) ==
    /\ procs[Reader].pc = "ready"
    /\ wk.pc \notin InPass
    /\ CanRead(Reader)
    /\ IF ArrivalsOn(log, d) = {}
       THEN /\ out' = [cmd |-> "getWorkTimeForDay", d |-> d,
                       st |-> "error", msg |-> ERR_NO_ARRIVAL]
            /\ procs' = [procs EXCEPT ![Reader] = IdleProc]
       ELSE /\ procs' = [procs EXCEPT ![Reader] =
                           [pc |-> "arrivalCursor", d |-> d,
                            startTime |-> FirstArrival(log, d)]]
            /\ UNCHANGED out
    /\ UNCHANGED <<log, now, wk, db>>

\* first query of getEntries: cur.fetchone()
fetchArrival ==
    /\ procs[Reader].pc = "arrivalCursor"
    /\ procs' = [procs EXCEPT ![Reader].pc = "queried"]
    /\ UNCHANGED <<log, now, out, wk, db>>

\* getWorkTimeForDay(con, d), second query of getEntries: the cursor
queryEntries ==
    /\ procs[Reader].pc = "queried"
    /\ CanRead(Reader)
    /\ \E rows \in Ascending(log, EntriesFrom(log, procs[Reader].startTime,
                                              procs[Reader].d)) :
          procs' = [procs EXCEPT ![Reader] =
                      [pc |-> "replaying", d |-> procs[Reader].d,
                       rows |-> rows]]
    /\ UNCHANGED <<log, now, out, wk, db>>

\* the loop of getWorkTimeForDay has come to the end of its cursor with an
\* interval still open
OpenAfter(rows) ==
    LET r == Replay(rows, 1, 0, NoTs)
    IN  r.st = "ok" /\ r.arrival # NoTs

\* getWorkTimeForDay(con, d): the loop over the cursor, whose last fetch
\* ends the statement; with no interval left open the function returns
replay ==
    /\ procs[Reader].pc = "replaying"
    /\ LET rows == procs[Reader].rows
       IN  IF OpenAfter(rows)
           THEN /\ procs' = [procs EXCEPT ![Reader].pc = "looped"]
                /\ UNCHANGED out
           ELSE /\ out' = WorkTime(rows, now)
                             @@ [cmd |-> "getWorkTimeForDay",
                                 d |-> procs[Reader].d,
                                 first |-> rows[1], rows |-> rows]
                /\ procs' = [procs EXCEPT ![Reader] = IdleProc]
    /\ UNCHANGED <<log, now, wk, db>>

\* getWorkTimeForDay(con, d): the open end, datetime.now() - arrival, and
\* the return
openEnd ==
    /\ procs[Reader].pc = "looped"
    /\ LET rows == procs[Reader].rows
       IN  out' = WorkTime(rows, now)
                     @@ [cmd |-> "getWorkTimeForDay", d |-> procs[Reader].d,
                         first |-> rows[1], rows |-> rows]
    /\ procs' = [procs EXCEPT ![Reader] = IdleProc]
    /\ UNCHANGED <<log, now, wk, db>>

\* weekStatistics(con) up to its loop
weekStartConc ==
    /\ procs[Reader].pc = "ready"
    /\ wk.pc \notin InPass
    /\ weekStart(0, now)

\* one pass of the loop, first query of getEntries: con.execute
weekArrival ==
    /\ wk.pc = "loop"
    /\ wk.current < wk.endOfWeek
    /\ CanRead(Reader)
    /\ wk' = IF ArrivalsOn(log, wk.current) = {}
             THEN Caught(DaySkipped(wk), [msg |-> ERR_NO_ARRIVAL])
             ELSE [wk EXCEPT !.pc = "arrivalCursor",
                             !.startTime = FirstArrival(log, wk.current)]
    /\ UNCHANGED <<log, now, out, procs, db>>

\* the same pass, first query of getEntries: cur.fetchone()
weekFetchArrival ==
    /\ wk.pc = "arrivalCursor"
    /\ wk' = [wk EXCEPT !.pc = "queried"]
    /\ UNCHANGED <<log, now, out, procs, db>>

\* the same pass, second query of getEntries: the cursor
weekEntries ==
    /\ wk.pc = "queried"
    /\ CanRead(Reader)
    /\ \E rows \in Ascending(log,
                      EntriesFrom(log, wk.startTime, wk.current)) :
          wk' = [wk EXCEPT !.pc = "replaying", !.cursor = rows]
    /\ UNCHANGED <<log, now, out, procs, db>>

\* the same pass: the loop over the cursor, whose last fetch ends the
\* statement; with no interval left open, the rest of the body too
weekReplay ==
    /\ wk.pc = "replaying"
    /\ LET w == [wk EXCEPT !.pc = "loop", !.startTime = NoTs,
                           !.cursor = <<>>]
           r == WorkTime(wk.cursor, now)
       IN  wk' = IF OpenAfter(wk.cursor) THEN [wk EXCEPT !.pc = "looped"]
                 ELSE IF r.st = "ok" THEN DayCounted(w, r)
                 ELSE Caught(DaySkipped(w), r)
    /\ UNCHANGED <<log, now, out, procs, db>>

\* the same pass: the open end, datetime.now() - arrival, the return and
\* the rest of the body
weekOpenEnd ==
    /\ wk.pc = "looped"
    /\ LET w == [wk EXCEPT !.pc = "loop", !.startTime = NoTs,
                           !.cursor = <<>>]
       IN  wk' = DayCounted(w, WorkTime(wk.cursor, now))
    /\ UNCHANGED <<log, now, out, procs, db>>

\* weekStatistics after its loop; the invocation ends
weekFooterConc ==
    /\ wk.pc = "loop"
    /\ ~(wk.current < wk.endOfWeek)
    /\ wk' = [wk EXCEPT !.pc = "done"] @@ [footer |-> Footer(wk)]
    /\ out' = [cmd |-> "weekStatistics", st |-> "ok"]
    /\ procs' = [procs EXCEPT ![Reader] = IdleProc]
    /\ UNCHANGED <<log, now, db>>

InitConc ==
    /\ log = <<>>
    /\ now = 0
    /\ out = Idle
    /\ procs = [x \in Invocations |-> IdleProc]
    /\ wk = IdleWeek
    /\ db = DbNew

LaterConc == {t \in GridConc : t > now}

NextConc ==
    \/ \E x \in Invocations : readVersion(x)
    \/ \E x \in Invocations : fetchVersion(x)
    \/ \E x \in Invocations : beginExclusiveWait(x)
    \/ \E x \in Invocations : beginExclusive(x)
    \/ \E x \in Invocations : createTable(x)
    \/ \E x \in Invocations : lockTimeout(x)
    \/ \E p \in Procs : queryLastType(p)
    \/ \E p \in Procs : fetchLastType(p)
    \/ \E p \in Procs : queryLastTime(p)
    \/ \E p \in Procs : fetchLastTime(p)
    \/ \E p \in Procs, cmd \in Commands : validate(p, cmd)
    \/ \E p \in Procs, t \in LaterConc : readClock(p, t)
    \/ \E p \in Procs : insert(p)
    \/ \E p \in Procs : commitWait(p)
    \/ \E p \in Procs : commit(p)
    \/ \E d \in Dates : queryArrival(d)
    \/ fetchArrival
    \/ queryEntries
    \/ replay
    \/ openEnd
    \/ weekStartConc
    \/ weekArrival
    \/ weekFetchArrival
    \/ weekEntries
    \/ weekReplay
    \/ weekOpenEnd
    \/ weekFooterConc

SpecConc == InitConc /\ [][NextConc]_vars

-----------------------------------------------------------------------------
(* Week reports over the logs of whole working days                        *)

\* last date on which the week report is asked for
MaxDay == 7

\* what the state machine records on date d for a day spent in one of a
\* few ways: not at work, 8 hours with a lunch break, 6 hours without,
\* an evening session that ends after midnight
DayEvents(d, kind) ==
    CASE kind = "absent" -> <<>>
      [] kind = "lunch" -> <<Event(ACT_ARRIVE, Midnight(d) + 8),
                             Event(ACT_BREAK, Midnight(d) + 12),
                             Event(ACT_RESUME, Midnight(d) + 13),
                             Event(ACT_LEAVE, Midnight(d) + 17)>>
      [] kind = "short" -> <<Event(ACT_ARRIVE, Midnight(d) + 9),
                             Event(ACT_LEAVE, Midnight(d) + 15)>>
      [] kind = "late" -> <<Event(ACT_ARRIVE, Midnight(d) + 20),
                            Event(ACT_LEAVE, Midnight(d + 1) + 2)>>

DayKinds(d) ==
    CASE weekday(d) < 4 -> {"absent", "lunch", "short"}
      [] weekday(d) = 4 -> {"absent", "lunch", "short", "late"}
      [] OTHER -> {"absent", "short"}

\* the logs recorded on the dates from..upTo
RECURSIVE LogsOf(_, _)
LogsOf(from, upTo) ==
    IF from > upTo THEN {<<>>}
    ELSE {DayEvents(from, k) \o rest :
            k \in DayKinds(from), rest \in LogsOf(from + 1, upTo)}

\* the log l, or l before its last command (the session is still open)
WithOpenEnd(l) ==
    IF l = <<>> THEN {l} ELSE {l, SubSeq(l, 1, Len(l) - 1)}

\* the events of l recorded by the instant t
UpTo(l, t) == SelectSeq(l, LAMBDA e : e.ts <= t)

\* in the evening of some date of the first week, or of the Monday after it
InitWeek ==
    /\ \E today \in 0..MaxDay :
          /\ now = Midnight(today) + 18
          /\ \E l \in LogsOf(0, Min(today, WeekLen - 1)) :
                log \in WithOpenEnd(UpTo(l, now))
    /\ out = Idle
    /\ procs = NoProcs
    /\ wk = IdleWeek
    /\ db = DbReady

NextWeek ==
    \/ \E offset \in Offsets : weekStart(offset, now)
    \/ weekIter(now)
    \/ weekFooter

SpecWeek == InitWeek /\ [][NextWeek]_vars

-----------------------------------------------------------------------------
(* Sequential use: one command per process, one process at a time, and a   *)
(* clock that has advanced whenever a state-machine command reads it       *)

Init ==
    /\ log = <<>>
    /\ now = 0
    /\ out = Idle
    /\ procs = NoProcs
    /\ wk = IdleWeek
    /\ db = DbReady

Later == {t \in Grid : t > now}

NotEarlier == {t \in Grid : t >= now}

Next ==
    \/ \E t \in Later : startTracking(t)
    \/ \E t \in Later : suspendTracking(t)
    \/ \E t \in Later : resumeTracking(t)
    \/ \E t \in Later : endTracking(t)
    \/ \E t \in NotEarlier, d \in Dates : DayWorkTime(d, t)
    \/ \E t \in NotEarlier, offset \in DayOffsets : dayStatistics(offset, t)

Spec == Init /\ [][Next]_vars

\* Commands run one after the other on a clock that need not advance
\* between two of them, so that events may carry the same timestamp.
MaxStepsTie == 2

GridTie == {k * Step : k \in 0..MaxStepsTie}

NotEarlierTie == {t \in GridTie : t >= now}

\* the number of events the log is let grow to
MaxLenTie == 4

NextTie ==
    \/ \E t \in NotEarlierTie : Len(log) < MaxLenTie /\ startTracking(t)
    \/ \E t \in NotEarlierTie : Len(log) < MaxLenTie /\ suspendTracking(t)
    \/ \E t \in NotEarlierTie : Len(log) < MaxLenTie /\ resumeTracking(t)
    \/ \E t \in NotEarlierTie : Len(log) < MaxLenTie /\ endTracking(t)
    \/ \E t \in NotEarlierTie, d \in Dates : DayWorkTime(d, t)

SpecTie == Init /\ [][NextTie]_vars

\* Commands and reports of every kind, one invocation after the other.
NextReport ==
    \/ \E t \in Later : startTracking(t)
    \/ \E t \in Later : suspendTracking(t)
    \/ \E t \in Later : resumeTracking(t)
    \/ \E t \in Later : endTracking(t)
    \/ \E t \in NotEarlier, d \in Dates : DayWorkTime(d, t)
    \/ \E t \in NotEarlier, offset \in DayOffsets : dayStatistics(offset, t)
    \/ \E t \in NotEarlier, offset \in Offsets : weekStart(offset, t)
    \/ weekIter(now)
    \/ weekFooter

SpecReport == Init /\ [][NextReport]_vars

-----------------------------------------------------------------------------
(* The transition table of the state machine, as specified                 *)

\* kind of the most recently recorded event
LastKind(l) == IF l = <<>> THEN None ELSE l[Len(l)].type

LegalAfter(cmd) ==
    CASE cmd = "startTracking" -> {None, ACT_LEAVE}
      [] cmd = "suspendTracking" -> {ACT_ARRIVE, ACT_RESUME}
      [] cmd = "resumeTracking" -> {ACT_BREAK}
      [] cmd = "endTracking" -> {ACT_ARRIVE, ACT_RESUME}

NewEvent(cmd) ==
    CASE cmd = "startTracking" -> "arrive"
      [] cmd = "suspendTracking" -> "break"
      [] cmd = "resumeTracking" -> "resume"
      [] cmd = "endTracking" -> "leave"

IsPrefix(a, b) == Len(a) <= Len(b) /\ SubSeq(b, 1, Len(a)) = a

\* this step is a whole run of the state-machine command cmd (under Spec
\* every such run reads a later clock)
Ran(cmd) == now' # now /\ out'.cmd = cmd

\* C1: a state-machine command succeeds exactly when the kind of the most
\* recent event is in the command's legal set (StartDay: none or Leave;
\* StartBreak and EndDay: Arrive or BreakEnd; EndBreak: BreakStart).
C1_TransitionTable ==
    [][\A cmd \in Commands :
          Ran(cmd) => (out'.st = "ok" <=> LastKind(log) \in LegalAfter(cmd))]_vars

\* a second StartDay right after a successful one was rejected; a break
\* was started and ended
C1_Witness ==
    /\ out.cmd = "startTracking" /\ out.st = "error"
    /\ Len(log) = 3 /\ log[1].type = ACT_ARRIVE
    /\ log[2].type = ACT_BREAK /\ log[3].type = ACT_RESUME

\* C2: a command called when the last kind is outside its legal set leaves
\* the log exactly as it was.
C2_RejectionLeavesLog ==
    [][\A cmd \in Commands :
          (Ran(cmd) /\ LastKind(log) \notin LegalAfter(cmd)) => log' = log]_vars

\* EndBreak was rejected while working, with events in the log
C2_Witness ==
    /\ out.cmd = "resumeTracking" /\ out.st = "error"
    /\ Len(log) = 3 /\ LastKind(log) = ACT_RESUME

\* C4: a successful command appends exactly one event, of the command's
\* kind and stamped with the clock reading, and no step changes or removes
\* an event already recorded.
C4_AppendsOneEvent ==
    [][/\ IsPrefix(log, log')
       /\ \A cmd \in Commands :
             (Ran(cmd) /\ out'.st = "ok")
                => log' = Append(log, Event(NewEvent(cmd), now'))]_vars

\* all four kinds have been appended, in order
C4_Witness ==
    /\ Len(log) = 4
    /\ out.cmd = "endTracking" /\ out.st = "ok" /\ out.ts = now
    /\ log[3].type = ACT_RESUME /\ log[4] = Event(ACT_LEAVE, now)

-----------------------------------------------------------------------------
(* Concurrent invocations                                                  *)

\* the kinds the transition table allows directly before an event of a kind
LegalBefore(kind) ==
    CASE kind = ACT_ARRIVE -> {None, ACT_LEAVE}
      [] kind = ACT_BREAK -> {ACT_ARRIVE, ACT_RESUME}
      [] kind = ACT_RESUME -> {ACT_BREAK}
      [] kind = ACT_LEAVE -> {ACT_ARRIVE, ACT_RESUME}

\* the kinds of the events of l directly before event i in timestamp order
KindsBefore(l, i) ==
    LET earlier == {j \in Indices(l) : l[j].ts < l[i].ts}
    IN  IF earlier = {} THEN {None}
        ELSE {l[j].type : j \in {k \in earlier :
                                   \A m \in earlier : l[m].ts <= l[k].ts}}

\* C3: with invocations running concurrently the log never holds
\* consecutive events (in timestamp order) that the transition table
\* forbids, such as two Arrive events with no Leave between them.
C3_NoConflictingEvents ==
    \A i \in Indices(log) : KindsBefore(log, i) \subseteq LegalBefore(log[i].type)

-----------------------------------------------------------------------------
(* The day aggregator                                                      *)

IsDayResult == out.cmd = "getWorkTimeForDay"

\* the rows replayed for the date of the last day query (one order only
\* when no two of them carry the same timestamp)
Replayed == CHOOSE rows \in getEntries(log, out.d) : TRUE

HasArrival == \E i \in Indices(log) :
                 /\ log[i].type = "arrive"
                 /\ Midnight(out.d) <= log[i].ts
                 /\ log[i].ts < Midnight(out.d + 1)

Opens(e) == e.type \in {"arrive", "resume"}
Closes(e) == e.type \in {"break", "leave"}

\* Arrive, (BreakStart, BreakEnd)*, Leave
ClosedShape(rows) ==
    /\ Len(rows) >= 2 /\ Len(rows) % 2 = 0
    /\ rows[1].type = "arrive" /\ rows[Len(rows)].type = "leave"
    /\ \A i \in 2..(Len(rows) - 1) :
          rows[i].type = (IF i % 2 = 0 THEN "break" ELSE "resume")

\* some replayed row is of the wrong class at its position: the rows at
\* odd positions meet no open interval, those at even positions meet one
WrongClass(rows) ==
    \E i \in 1..Len(rows) :
       IF i % 2 = 1 THEN ~Opens(rows[i]) ELSE ~Closes(rows[i])

\* the replay meets no row of the wrong class and ends with an interval
\* open: the last row is an Arrive or a BreakEnd
OpenShape(rows) ==
    /\ ~WrongClass(rows)
    /\ Len(rows) % 2 = 1
    /\ rows[Len(rows)].type \in {"arrive", "resume"}

\* sum of rows[i+1].ts - rows[i].ts over i = from, from + 2, ... below upTo
RECURSIVE GapSum(_, _, _)
GapSum(rows, from, upTo) ==
    IF from + 1 > upTo THEN 0
    ELSE (rows[from + 1].ts - rows[from].ts) + GapSum(rows, from + 2, upTo)

\* C5: a day replayed as Arrive, (BreakStart, BreakEnd)*, Leave is reported
\* as not present, with total (Leave - Arrive) minus the breaks, whatever
\* the clock reads.
C5_ClosedDayTotal ==
    (IsDayResult /\ HasArrival /\ ClosedShape(Replayed))
       => /\ out.st = "ok"
          /\ out.here = FALSE
          /\ out.total = (Replayed[Len(Replayed)].ts - Replayed[1].ts)
                            - GapSum(Replayed, 2, Len(Replayed) - 1)

\* 08:00 arrive, 12:00 break, 16:00 resume, 20:00 leave, asked the day after
C5_Witness ==
    /\ IsDayResult /\ out.st = "ok" /\ out.d = 0
    /\ log = <<Event("arrive", 8), Event("break", 12), Event("resume", 16),
               Event("leave", 20)>>
    /\ now > 24
    /\ out.total = 8 /\ out.here = FALSE

C6_OpenTotal ==
    (IsDayResult /\ HasArrival /\ OpenShape(Replayed))
       => /\ out.st = "ok"
          /\ out.here = TRUE
          /\ out.total = GapSum(Replayed, 1, Len(Replayed) - 1)
                            + (now - Replayed[Len(Replayed)].ts)

C6_Monotone ==
    (/\ IsDayResult /\ out.st = "ok"
     /\ out'.cmd = "getWorkTimeForDay" /\ out'.st = "ok"
     /\ out'.d = out.d /\ log' = log)
       => /\ now' >= now => out'.total >= out.total
          /\ now' = now => out' = out

\* C6: a day whose replay ends with an interval open is reported as
\* present, with total the closed intervals plus (now - start of the open
\* one); asked again for the same log the total does not decrease, and
\* with the same clock reading the result is the same.
C6_OpenDayTotal == [][C6_OpenTotal' /\ C6_Monotone]_vars

\* arrive, break, resume, and the clock has moved on since the resume
C6_Witness ==
    /\ IsDayResult /\ out.st = "ok" /\ out.here = TRUE
    /\ Len(log) = 3 /\ log[3].type = "resume"
    /\ Len(Replayed) = 3
    /\ now > log[3].ts
    /\ out.total > log[2].ts - log[1].ts

InconsistentSequence == {ERR_EXPECTED_ARRIVAL, ERR_EXPECTED_LEAVE}

\* the last day query got as far as the replay
Replays == "rows" \in DOMAIN out

\* C7: a replayed event of the wrong class at its position makes the day
\* aggregation fail with InconsistentSequence instead of returning a total.
C7_WrongClassFails ==
    (IsDayResult /\ Replays /\ WrongClass(out.rows))
       => out.st = "error" /\ out.msg \in InconsistentSequence

\* Arrive, BreakStart, Leave: the break is never ended
C7_Witness ==
    /\ IsDayResult /\ Replays /\ out.st = "error"
    /\ Len(out.rows) = 3
    /\ out.rows[1].type = "arrive" /\ out.rows[2].type = "break"
    /\ out.rows[3].type = "leave"

\* C8: the day aggregation fails with NoArrivalForDate exactly when no
\* Arrive event lies in [midnight of D, midnight of D+1); otherwise the
\* replay starts at the earliest such Arrive.
C8_NoArrivalForDate ==
    IsDayResult
       => /\ (out.st = "error" /\ out.msg = ERR_NO_ARRIVAL) <=> ~HasArrival
          /\ HasArrival =>
                /\ out.first.type = "arrive"
                /\ Midnight(out.d) <= out.first.ts
                /\ \A i \in Indices(log) :
                      (log[i].type = "arrive" /\ Midnight(out.d) <= log[i].ts)
                         => out.first.ts <= log[i].ts

\* the date holds only the Leave of a session begun the day before
C8_Witness ==
    /\ IsDayResult /\ out.st = "error" /\ out.msg = ERR_NO_ARRIVAL
    /\ out.d = 1
    /\ Len(log) = 2 /\ log[1].ts < Midnight(1)
    /\ log[2].type = "leave" /\ log[2].ts > Midnight(1)

-----------------------------------------------------------------------------
(* The week aggregator                                                     *)

WeekRuns == wk.pc \in {"loop", "done"}

\* the dates the loop has gone through
Evaluated == {d \in wk.startOfWeek..(wk.current - 1) : TRUE}

\* the result of the day aggregation for date d (one result only when no
\* two events carry the same timestamp)
DayResult(d) == CHOOSE r \in getWorkTimeForDay(log, d, now) : TRUE

RECURSIVE SumOfTotals(_)
SumOfTotals(S) ==
    IF S = {} THEN 0
    ELSE LET d == CHOOSE x \in S : TRUE
         IN  DayResult(d).total + SumOfTotals(S \ {d})

\* C9: a day of the week that fails with InconsistentSequence aborts the
\* week report: the loop does not go on past it and no footer is printed.
C9_InconsistentDayAborts ==
    wk.pc \in InPass \cup {"done"} =>
       \A i \in 1..Len(wk.caught) : wk.caught[i] \notin InconsistentSequence

\* C10: after every pass of the loop daysSoFar is the number of dates gone
\* through for which the day aggregation succeeded, weekTotal the sum of
\* their totals and extraHours = weekTotal - (WEEK_HOURS / 5) * daysSoFar;
\* after the loop the dates gone through are those of
\* [startOfWeek, min(tomorrow, startOfWeek + 7 days)).
C10_WeekAccumulators ==
    WeekRuns =>
       LET worked == {d \in Evaluated : DayResult(d).st = "ok"}
       IN  /\ wk.daysSoFar = Cardinality(worked)
           /\ wk.weekTotal = SumOfTotals(worked)
           /\ 5 * wk.extraHours = 5 * wk.weekTotal - WEEK_HOURS * wk.daysSoFar
           /\ wk.pc = "done" =>
                 Evaluated = {d \in wk.startOfWeek..(wk.startOfWeek + 6) :
                                d < wk.today + 1}

\* a finished report of a week with three days worked, one of them short,
\* and absent weekdays
C10_Witness ==
    /\ wk.pc = "done"
    /\ wk.daysSoFar = 3
    /\ Len(wk.rows) > 3
    /\ wk.weekTotal = 22
    /\ wk.extraHours = -2

\* C11: the week is built from at most the five weekday days: daysSoFar
\* never exceeds 5 and work recorded on a Saturday or Sunday is not added
\* to weekTotal.
C11_WeekdaysOnly ==
    WeekRuns =>
       /\ wk.daysSoFar <= 5
       /\ wk.weekTotal =
             SumOfTotals({d \in Evaluated :
                            weekday(d) < 5 /\ DayResult(d).st = "ok"})

\* the Monday of the week the report is asked for
TargetMonday == 7 * (DateOf(now) \div 7) + 7 * wk.offset

\* C12: every date handed to the day aggregation lies in
\* [startOfWeek, min(tomorrow, startOfWeek + 7 days)), startOfWeek being
\* the Monday of the target week: no date after today is evaluated, and for
\* a week in the future no date at all.
C12_DatesEvaluated ==
    [][/\ (wk.pc = "loop" /\ wk'.pc = "loop" /\ wk'.current # wk.current)
            => /\ wk.startOfWeek = TargetMonday
               /\ TargetMonday <= wk.current
               /\ wk.current < TargetMonday + 7
               /\ wk.current < DateOf(now) + 1
               /\ wk'.current = wk.current + 1
       /\ (wk'.pc = "done" /\ wk'.offset > 0)
            => wk'.current = wk'.startOfWeek /\ wk'.rows = <<>>]_vars

\* a report of the current week asked for on its Wednesday went through
\* Monday, Tuesday and Wednesday and stopped
C12_Witness ==
    /\ wk.pc = "done" /\ wk.offset = 0
    /\ DateOf(now) = 2
    /\ wk.startOfWeek = 0 /\ wk.current = 3

\* the dates gone through for which the day aggregation succeeded
Worked == {d \in Evaluated : DayResult(d).st = "ok"}

\* the last of them reports the user as present
PresentOnLastDay ==
    /\ Worked # {}
    /\ DayResult(CHOOSE d \in Worked : \A e \in Worked : e <= d).here

\* C13: in the footer the expected figure is printed iff daysSoFar < 5 and
\* is dailyQuota * daysSoFar; remaining is printed iff daysSoFar < 5 or
\* (daysSoFar = 5 and the user is reported present) and is
\* WEEK_HOURS - weekTotal; the daily figure is printed iff remaining is
\* and daysSoFar < 4, and is remaining / (5 - daysSoFar), a divisor >= 2.
C13_Footer ==
    wk.pc = "done" =>
       LET f == wk.footer
           n == wk.daysSoFar
       IN  /\ f.expectation # <<>> <=> n < 5
           /\ n < 5 => 5 * f.expectation[1] = WEEK_HOURS * n
           /\ f.remaining # <<>> <=> (n < 5 \/ (n = 5 /\ PresentOnLastDay))
           /\ f.remaining # <<>>
                 => f.remaining[1] = WEEK_HOURS - SumOfTotals(Worked)
           /\ f.remainingPerDay # <<>> <=> (f.remaining # <<>> /\ n < 4)
           /\ f.remainingPerDay # <<>>
                 => /\ f.remainingPerDay[1].num = f.remaining[1]
                    /\ f.remainingPerDay[1].den = 5 - n
                    /\ f.remainingPerDay[1].den >= 2
           /\ f.weekTotal = SumOfTotals(Worked)
           /\ 5 * f.weekExtraHours = 5 * f.weekTotal - WEEK_HOURS * n

\* Monday to Friday worked 8 hours each, nobody present: 40 hours, delta
\* 0, no remaining
C13_Witness ==
    /\ wk.pc = "done"
    /\ wk.daysSoFar = 5 /\ Len(wk.rows) = 5
    /\ \A i \in 1..5 : wk.rows[i].hours = 8
    /\ wk.footer.weekTotal = 40 /\ wk.footer.weekExtraHours = 0
    /\ wk.footer.remaining = <<>> /\ wk.footer.expectation = <<>>

\* C14: a day report for the date D = today + offset is about D
\* throughout: the rows listed, the presence flag and the total are those
\* of D, whatever the offset.
C14_DayReportAboutItsDate ==
    out.cmd = "dayStatistics" =>
       \E r \in getWorkTimeForDay(log, out.d, now) :
          /\ r.st = out.st
          /\ r.st = "ok" => /\ out.rows \in getEntries(log, out.d)
                            /\ out.here = r.here
                            /\ out.total = r.total

\* the error a rejected command reports
ErrorKind(cmd) ==
    CASE cmd = "startTracking" -> MSG_ERR_HAVE_NOT_LEFT
      [] cmd \in {"suspendTracking", "endTracking"} -> MSG_ERR_NOT_WORKING
      [] cmd = "resumeTracking" -> MSG_ERR_NOT_BREAKING

\* C15: a rejected StartDay reports MSG_ERR_HAVE_NOT_LEFT, a rejected
\* StartBreak or EndDay MSG_ERR_NOT_WORKING, a rejected EndBreak
\* MSG_ERR_NOT_BREAKING: never the error of another command, never a
\* success message.
C15_RejectionKind ==
    [][\A cmd \in Commands :
          (Ran(cmd) /\ LastKind(log) \notin LegalAfter(cmd))
             => /\ out'.st = "error"
                /\ out'.msg = ErrorKind(cmd)
                /\ out'.msg \notin {SuccessOf(c) : c \in Commands}
                /\ out'.msg \notin
                      {MSG_ERR_HAVE_NOT_LEFT, MSG_ERR_NOT_WORKING,
                       MSG_ERR_NOT_BREAKING} \ {ErrorKind(cmd)}]_vars

\* the end of a day was refused while a break was open
C15_Witness ==
    /\ out.cmd = "endTracking" /\ out.st = "error"
    /\ out.msg = MSG_ERR_NOT_WORKING
    /\ LastKind(log) = ACT_BREAK

\* the rows of the date d in the half-open window from its first arrival
\* to the next midnight
HalfOpenRows(l, d) ==
    Ascending(l, {i \in EntryIndices(l, d) : l[i].ts < Midnight(d + 1)})

\* C17: the day aggregation replays only the events from the earliest
\* arrival of D up to, and not including, midnight of D + 1: an event
\* stamped exactly at that midnight is not part of D's replay.
C17_HalfOpenWindow ==
    (IsDayResult /\ HasArrival) =>
       \E rows \in HalfOpenRows(log, out.d) :
          LET r == WorkTime(rows, now)
          IN  /\ r.st = out.st
              /\ r.st = "ok" => (r.here = out.here /\ r.total = out.total)

\* C18: with commands run one after the other on a strictly increasing
\* clock the log is a prefix of (Arrive (BreakStart BreakEnd)* Leave)*,
\* each event stamped later than the one before it; from the empty log
\* StartDay, n times (StartBreak, EndBreak), EndDay all succeed.
C18_LogGrammar ==
    \A i \in Indices(log) :
       IF i = 1
       THEN log[i].type = ACT_ARRIVE
       ELSE /\ log[i - 1].ts < log[i].ts
            /\ log[i - 1].type \in LegalBefore(log[i].type)

\* a day with two breaks was recorded from the empty log
C18_Witness ==
    /\ Len(log) = 6
    /\ [i \in 1..6 |-> log[i].type] =
          <<ACT_ARRIVE, ACT_BREAK, ACT_RESUME, ACT_BREAK, ACT_RESUME,
            ACT_LEAVE>>
    /\ out.cmd = "endTracking" /\ out.st = "ok"

\* C19: the day aggregation reports the user as present only if the most
\* recent event of the whole log is an Arrive or a BreakEnd; a session
\* begun on D and closed after midnight is not reported as present.
C19_PresentMeansOpenSession ==
    (IsDayResult /\ out.st = "ok" /\ out.here)
       => LastKind(log) \in {ACT_ARRIVE, ACT_RESUME}

\* the log l holds an event of this kind and timestamp
Holds(l, type, ts) == \E i \in Indices(l) : l[i] = Event(type, ts)

\* C16: the log never holds two events of the same kind and timestamp: a
\* command that would insert a pair already in the log fails with a
\* duplicate-key error and leaves the log as it is.
C16_NoDuplicateKey ==
    [][/\ \A i, j \in Indices(log') : log'[i] = log'[j] => i = j
       /\ out'.cmd \in Commands =>
             /\ out'.st = "crash"
                   => /\ Holds(log, NewEvent(out'.cmd), now')
                      /\ log' = log
             /\ out'.st = "ok"
                   => /\ ~Holds(log, NewEvent(out'.cmd), now')
                      /\ log' = Append(log, Event(NewEvent(out'.cmd), now'))
             /\ out'.st = "error" => log' = log]_vars

\* a second break at the instant of the first one was refused by the table
C16_Witness ==
    /\ out.cmd = "suspendTracking" /\ out.st = "crash"
    /\ Holds(log, ACT_BREAK, now)
    /\ Len(log) = 2

\* C20: when events of different kinds carry the same timestamp the kind
\* the commands see as the last one is that of the event appended last, so
\* that the log in recording order still follows the transition table.
C20_TiesInRecordingOrder ==
    /\ getLastType(log) = {LastKind(log)}
    /\ \A i \in Indices(log) :
          i > 1 => log[i - 1].type \in LegalBefore(log[i].type)

\* what the commands make of the log l at the instant t
CommandResults(l, cmd, t) ==
    {IF Rejects(cmd, lastType) THEN <<"error", ErrorOf(cmd), l>>
     ELSE <<"ok", SuccessOf(cmd), addEntry(l, TypeOf(cmd), t)>> :
        lastType \in getLastType(l)}

\* C21: the day aggregation, the day report and the week report, whether
\* they succeed or fail, leave the log exactly as it was, so that the
\* next state-machine command has the outcome it would have had without
\* the report.
C21_ReportsReadOnly ==
    [][out'.cmd \notin Commands =>
          /\ log' = log
          /\ \A cmd \in Commands, t \in Grid :
                t > now' =>
                   CommandResults(log', cmd, t) = CommandResults(log, cmd, t)]_vars

\* a week report went through a day it counted and a day without arrival
\* over a log with events, and ended
C21_Witness ==
    /\ out.cmd = "weekStatistics" /\ wk.pc = "done"
    /\ log # <<>>
    /\ wk.daysSoFar >= 1
    /\ \E i \in 1..Len(wk.rows) : DOMAIN wk.rows[i] = {"date"}

\* C22: for a log recorded by the state machine, a date D on which the
\* day aggregation succeeds and a now not earlier than the last event, the
\* total is not negative and at most the span from the earliest arrival
\* of D to midnight of D + 1, hence at most 24 hours, also when the last
\* interval replayed is not closed inside the window of D.
C22_TotalWithinDay ==
    (IsDayResult /\ out.st = "ok") =>
       /\ out.total >= 0
       /\ out.total <= Midnight(out.d + 1) - FirstArrival(log, out.d)
       /\ out.total <= DayLen

====
